---- MODULE Spec2Model ----
(***************************************************************************)
(* Primitive-root registry of the field package (roots.go, embedded in     *)
(* README.md lines 302-468) over the Goldilocks base field                 *)
(* p = 2^64 - 2^32 + 1.                                                    *)
(*                                                                         *)
(* A uint64 is a tuple of 8 bytes, least significant first, so that every  *)
(* 64-bit value of the source is exact.  Intermediate values are bound by  *)
(* { e : x \in {v} } so that each is computed once.                        *)
(***************************************************************************)
EXTENDS Integers, Sequences, FiniteSets, TLC

\* ------------------------------------------------------------------------
\* uint64 arithmetic on byte tuples
\* ------------------------------------------------------------------------
Byte == 256
Width == 8

\* the only element of a singleton set
The(S) == CHOOSE r \in S : TRUE

RECURSIVE CarryLoop(_, _)
\* st = <<next index, carry, limbs so far>>
CarryLoop(r, st) ==
    IF st[1] > Len(r) THEN Append(st[3], st[2])
    ELSE The({ CarryLoop(r, nx) :
               nx \in { <<st[1] + 1, (r[st[1]] + st[2]) \div Byte,
                          Append(st[3], (r[st[1]] + st[2]) % Byte)>> } })

\* Propagates carries (or borrows) through the limbs r, least significant
\* first, starting with carry c; the last element of the result is the carry
\* out of the top limb.
Carry(r, c) == The({ CarryLoop(x, <<1, c, <<>>>>) : x \in {r} })

Low(x, k) == SubSeq(x, 1, k)

\* uint64(x) for a natural x < 2^31
U64(x) == <<x % Byte, (x \div Byte) % Byte, (x \div 65536) % Byte,
            x \div 16777216, 0, 0, 0, 0>>

RECURSIVE DecLoop(_, _)
\* st = <<next digit index, value so far>>
DecLoop(ds, st) ==
    IF st[1] > Len(ds) THEN st[2]
    ELSE The({ DecLoop(ds, nx) :
               nx \in { <<st[1] + 1,
                          Low(Carry([j \in 1..Width |-> st[2][j] * 10], ds[st[1]]),
                              Width)>> } })

\* The uint64 written as the decimal literal with digits ds
Dec(ds) == The({ DecLoop(x, <<1, U64(0)>>) : x \in {ds} })

\* a < b, for byte tuples of equal length: decided at the most significant
\* limb where they differ
Lt(a, b) ==
    \E i \in 1..Len(a) :
        /\ a[i] < b[i]
        /\ \A j \in (i + 1)..Len(a) : a[j] = b[j]

Geq(a, b) == ~Lt(a, b)

\* a - b modulo 2^(8 * Len(a))
SubWrap(a, b) == Low(Carry([j \in 1..Len(a) |-> a[j] - b[j]], 0), Len(a))

\* x & y for bytes x, y
AndByte(x, y) ==
      (x % 2) * (y % 2)
    + 2 * ((x \div 2) % 2) * ((y \div 2) % 2)
    + 4 * ((x \div 4) % 2) * ((y \div 4) % 2)
    + 8 * ((x \div 8) % 2) * ((y \div 8) % 2)
    + 16 * ((x \div 16) % 2) * ((y \div 16) % 2)
    + 32 * ((x \div 32) % 2) * ((y \div 32) % 2)
    + 64 * ((x \div 64) % 2) * ((y \div 64) % 2)
    + 128 * (x \div 128) * (y \div 128)

\* a & b
And(a, b) == <<AndByte(a[1], b[1]), AndByte(a[2], b[2]), AndByte(a[3], b[3]),
               AndByte(a[4], b[4]), AndByte(a[5], b[5]), AndByte(a[6], b[6]),
               AndByte(a[7], b[7]), AndByte(a[8], b[8])>>

\* a / 2 (also a >> 1)
Half(a) == <<a[1] \div 2 + (a[2] % 2) * 128, a[2] \div 2 + (a[3] % 2) * 128,
             a[3] \div 2 + (a[4] % 2) * 128, a[4] \div 2 + (a[5] % 2) * 128,
             a[5] \div 2 + (a[6] % 2) * 128, a[6] \div 2 + (a[7] % 2) * 128,
             a[7] \div 2 + (a[8] % 2) * 128, a[8] \div 2>>

IsOdd(a) == a[1] % 2 = 1

\* ------------------------------------------------------------------------
\* Base field: Element is the canonical representative in [0, p)
\* ------------------------------------------------------------------------
\* p = 2^64 - 2^32 + 1 = 0xFFFFFFFF00000001
P == <<1, 0, 0, 0, 255, 255, 255, 255>>
P9 == <<1, 0, 0, 0, 255, 255, 255, 255, 0>>

Zero == <<0, 0, 0, 0, 0, 0, 0, 0>>
One == <<1, 0, 0, 0, 0, 0, 0, 0>>

RECURSIVE CanonLoop(_)
CanonLoop(x) ==
    IF Lt(x, P9) THEN Low(x, Width)
    ELSE The({ CanonLoop(y) : y \in {SubWrap(x, P9)} })

\* the representative in [0, p) of a non-negative value given as 9 limbs
Canon(v) == The({ CanonLoop(x) : x \in {v} })

\* New(v): v reduced modulo p
New(v) == Canon(Append(v, 0))
NewFromRaw(v) == New(v)

Equal(a, b) == a = b

\* the columns of the schoolbook product of a and b
Columns(a, b) ==
    <<a[1] * b[1],
       a[1] * b[2] + a[2] * b[1],
       a[1] * b[3] + a[2] * b[2] + a[3] * b[1],
       a[1] * b[4] + a[2] * b[3] + a[3] * b[2] + a[4] * b[1],
       a[1] * b[5] + a[2] * b[4] + a[3] * b[3] + a[4] * b[2] + a[5] * b[1],
       a[1] * b[6] + a[2] * b[5] + a[3] * b[4] + a[4] * b[3] + a[5] * b[2] + a[6] * b[1],
       a[1] * b[7] + a[2] * b[6] + a[3] * b[5] + a[4] * b[4] + a[5] * b[3] + a[6] * b[2] + a[7] * b[1],
       a[1] * b[8] + a[2] * b[7] + a[3] * b[6] + a[4] * b[5] + a[5] * b[4] + a[6] * b[3] + a[7] * b[2] + a[8] * b[1],
       a[2] * b[8] + a[3] * b[7] + a[4] * b[6] + a[5] * b[5] + a[6] * b[4] + a[7] * b[3] + a[8] * b[2],
       a[3] * b[8] + a[4] * b[7] + a[5] * b[6] + a[6] * b[5] + a[7] * b[4] + a[8] * b[3],
       a[4] * b[8] + a[5] * b[7] + a[6] * b[6] + a[7] * b[5] + a[8] * b[4],
       a[5] * b[8] + a[6] * b[7] + a[7] * b[6] + a[8] * b[5],
       a[6] * b[8] + a[7] * b[7] + a[8] * b[6],
       a[7] * b[8] + a[8] * b[7],
       a[8] * b[8]>>

\* x mod p for a 16-limb x = x0 + 2^32 x1 + 2^64 x2 + 2^96 x3, using
\* 2^64 = 2^32 - 1 and 2^96 = -1 (mod p)
Fold(x) ==
    <<x[1] - x[9]  - x[13] + 1, x[2] - x[10] - x[14],
      x[3] - x[11] - x[15],     x[4] - x[12] - x[16],
      x[5] + x[9]  + 255,       x[6] + x[10] + 255,
      x[7] + x[11] + 255,       x[8] + x[12] + 255>>

\* a * b mod p
Mul(a, b) ==
    The({ Canon(Carry(Fold(w), 0)) :
          w \in { Carry(Columns(x, y), 0) : x \in {a}, y \in {b} } })

RECURSIVE PowLoop(_)
\* square-and-multiply, least significant exponent bit first;
\* st = <<base, exp, acc>> stands for acc * base^exp
PowLoop(st) ==
    IF st[2] = Zero THEN st[3]
    ELSE The({ PowLoop(nx) :
               nx \in { <<IF Half(st[2]) = Zero THEN st[1] ELSE Mul(st[1], st[1]),
                          Half(st[2]),
                          IF IsOdd(st[2]) THEN Mul(st[3], st[1]) ELSE st[3]>> } })

\* e^k for an exponent k < 2^16
PowSmall(e, k) == IF k = Zero \/ e = One THEN One ELSE PowLoop(<<e, k, One>>)

\* x^(2^16)
Sq16(x) == IF x = One THEN One ELSE PowLoop(<<x, <<0, 0, 1, 0, 0, 0, 0, 0>>, One>>)

\* bits 16(i-1) .. 16i-1 of n
Chunk(n, i) == <<n[2 * i - 1], n[2 * i], 0, 0, 0, 0, 0, 0>>

\* acc^(2^16) * e^k
PowStep(acc, e, k) ==
    The({ IF k = Zero THEN s ELSE Mul(s, PowSmall(e, k)) : s \in {Sq16(acc)} })

\* e^n, sixteen exponent bits at a time from the most significant
ModPow(e, n) ==
    The({ PowStep(r2, b, Chunk(x, 1)) :
          r2 \in { PowStep(r3, b, Chunk(x, 2)) :
                   r3 \in { PowStep(r4, b, Chunk(x, 3)) :
                            r4 \in { PowSmall(b, Chunk(x, 4)) : b \in {e}, x \in {n} },
                            b \in {e}, x \in {n} },
                   b \in {e}, x \in {n} },
          b \in {e}, x \in {n} })

\* the error of an operation undefined at its argument, and no error
DomainError == <<"DomainError">>
Nil == <<>>

RECURSIVE Squarings(_, _)
\* x^(2^k)
Squarings(x, k) ==
    IF k = 0 \/ x = One THEN x
    ELSE The({ Squarings(y, k - 1) : y \in {Mul(x, x)} })

\* x^(2^k) * tail
ExpAcc(x, k, tail) == The({ Mul(y, tail) : y \in {Squarings(x, k)} })

\* x^(2^6 - 1), through x^(2^2 - 1) and x^(2^3 - 1)
Chain6(x) ==
    The({ ExpAcc(t3, 3, t3) :
          t3 \in { ExpAcc(t2, 1, x) : t2 \in {ExpAcc(x, 1, x)} } })

\* x^(2^31 - 1) from t6 = x^(2^6 - 1), through 2^12 - 1, 2^24 - 1, 2^30 - 1
Chain31(x, t6) ==
    The({ ExpAcc(t30, 1, x) :
          t30 \in { ExpAcc(t24, 6, t6) :
                    t24 \in { ExpAcc(t12, 12, t12) :
                              t12 \in {ExpAcc(t6, 6, t6)} } } })

\* x^(2^64 - 2^32 - 1) from t31 = x^(2^31 - 1), through 2^63 - 2^32 + 2^31 - 1
Chain64(x, t31) ==
    The({ ExpAcc(t63, 1, x) :
          t63 \in { ExpAcc(s, 16, t31) : s \in {Squarings(t31, 16)} } })

\* a^(p-2) by an addition chain: 63 squarings and 9 multiplications
Fermat(a) ==
    The({ The({ Chain64(x, t31) :
                t31 \in { Chain31(x, t6) : t6 \in {Chain6(x)} } }) :
          x \in {a} })

\* Inverse that maps Zero to Zero instead of failing
Inverse_OrZero(a) == [val |-> Fermat(a), err |-> Nil]

\* a^(-1) by Fermat's little theorem; Zero has no inverse
Inverse(a) ==
    IF a = Zero THEN [val |-> Zero, err |-> DomainError]
    ELSE [val |-> Fermat(a), err |-> Nil]

\* a / b = a * b^(-1)
Div(a, b) ==
    IF b = Zero THEN [val |-> Zero, err |-> DomainError]
    ELSE [val |-> Mul(a, Inverse(b).val), err |-> Nil]

\* ------------------------------------------------------------------------
\* Extension field: c0 + c1*x + c2*x^2 as the triple <<c0, c1, c2>>
\* ------------------------------------------------------------------------
\* xfield.New(coeffs)
XNew(coeffs) == <<coeffs[1], coeffs[2], coeffs[3]>>

\* the embedding of the base field
FromBaseField(a) == XNew(<<a, Zero, Zero>>)

Lift(a) == FromBaseField(a)

\* Unlift that takes the last coefficient
Unlift_Last(x) == x[3]

\* the constant term
Unlift(x) == x[1]

\* ------------------------------------------------------------------------
\* Primitive root registry
\* ------------------------------------------------------------------------
D(ds) == Dec(ds)

\* the map literal, entry by entry: <<order, root>>
PrimitiveRootsLiteral == <<
    <<D(<<0>>), D(<<1>>)>>,
    <<D(<<1>>), D(<<1>>)>>,
    <<D(<<2>>), D(<<1,8,4,4,6,7,4,4,0,6,9,4,1,4,5,8,4,3,2,0>>)>>,
    <<D(<<4>>), D(<<2,8,1,4,7,4,9,7,6,7,1,0,6,5,6>>)>>,
    <<D(<<8>>), D(<<1,8,4,4,6,7,4,4,0,6,9,3,9,7,8,0,7,1,0,5>>)>>,
    <<D(<<1,6>>), D(<<1,7,2,9,3,8,2,2,5,6,4,8,0,7,7,3,7,3,4,5>>)>>,
    <<D(<<3,2>>), D(<<7,0,3,6,8,7,4,4,1,6,1,2,8,0>>)>>,
    <<D(<<6,4>>), D(<<5,4,9,7,5,5,8,1,3,8,8,8>>)>>,
    <<D(<<1,2,8>>), D(<<1,7,8,7,0,2,9,2,1,1,3,3,3,8,4,0,0,7,6,9>>)>>,
    <<D(<<2,5,6>>), D(<<1,3,7,9,7,0,8,1,1,8,5,2,1,6,4,0,7,9,1,0>>)>>,
    <<D(<<5,1,2>>), D(<<1,8,0,3,0,7,6,1,0,6,1,8,6,7,2,7,2,4,6>>)>>,
    <<D(<<1,0,2,4>>), D(<<1,1,3,5,3,3,4,0,2,9,0,8,7,9,3,7,9,8,2,6>>)>>,
    <<D(<<2,0,4,8>>), D(<<4,5,5,9,0,6,4,4,9,6,4,0,5,0,7,5,9,9>>)>>,
    <<D(<<4,0,9,6>>), D(<<1,7,4,9,2,9,1,5,0,9,7,7,1,9,1,4,3,6,0,6>>)>>,
    <<D(<<8,1,9,2>>), D(<<1,5,3,2,6,1,2,7,0,7,7,1,8,6,2,5,6,8,7>>)>>,
    <<D(<<1,6,3,8,4>>), D(<<1,6,2,0,7,9,0,2,6,3,6,1,9,8,5,6,8,4,1,8>>)>>,
    <<D(<<3,2,7,6,8>>), D(<<1,7,7,7,6,4,9,9,3,6,9,6,0,1,0,5,5,4,0,4>>)>>,
    <<D(<<6,5,5,3,6>>), D(<<6,1,1,5,7,7,1,9,5,5,1,0,7,4,1,5,3,1,0>>)>>,
    <<D(<<1,3,1,0,7,2>>), D(<<1,2,3,8,0,5,7,8,8,9,3,8,6,0,2,7,6,7,5,0>>)>>,
    <<D(<<2,6,2,1,4,4>>), D(<<9,3,0,6,7,1,7,7,4,5,6,4,4,6,8,2,9,2,4>>)>>,
    <<D(<<5,2,4,2,8,8>>), D(<<1,8,1,4,6,1,6,0,0,4,6,8,2,9,6,1,3,8,2,6>>)>>,
    <<D(<<1,0,4,8,5,7,6>>), D(<<3,5,1,1,1,7,0,3,1,9,0,7,8,6,4,7,6,6,1>>)>>,
    <<D(<<2,0,9,7,1,5,2>>), D(<<1,7,6,5,4,8,6,5,8,5,7,3,7,8,1,3,3,5,8,8>>)>>,
    <<D(<<4,1,9,4,3,0,4>>), D(<<5,4,1,6,1,6,8,6,3,7,0,4,1,1,0,0,4,6,9>>)>>,
    <<D(<<8,3,8,8,6,0,8>>), D(<<1,6,9,0,5,7,6,7,6,1,4,7,9,2,0,5,9,2,7,5>>)>>,
    <<D(<<1,6,7,7,7,2,1,6>>), D(<<9,7,1,3,6,4,4,4,8,5,4,0,5,5,6,5,2,9,7>>)>>,
    <<D(<<3,3,5,5,4,4,3,2>>), D(<<5,4,5,6,9,4,3,9,2,9,2,6,0,7,6,5,1,4,4>>)>>,
    <<D(<<6,7,1,0,8,8,6,4>>), D(<<1,7,0,9,6,1,7,4,7,5,1,7,6,3,0,6,3,4,3,0>>)>>,
    <<D(<<1,3,4,2,1,7,7,2,8>>), D(<<1,2,1,3,5,9,4,5,8,5,8,9,0,6,9,0,8,4,5>>)>>,
    <<D(<<2,6,8,4,3,5,4,5,6>>), D(<<6,4,1,4,4,1,5,5,9,6,5,1,9,8,3,4,7,5,7>>)>>,
    <<D(<<5,3,6,8,7,0,9,1,2>>), D(<<1,6,1,1,6,3,5,2,5,2,4,5,4,4,1,9,0,0,5,4>>)>>,
    <<D(<<1,0,7,3,7,4,1,8,2,4>>), D(<<9,1,2,3,1,1,4,2,1,0,3,3,6,3,1,1,3,6,5>>)>>,
    <<D(<<2,1,4,7,4,8,3,6,4,8>>), D(<<4,6,1,4,6,4,0,9,1,0,1,1,7,4,3,0,8,7,3>>)>>,
    <<D(<<4,2,9,4,9,6,7,2,9,6>>), D(<<1,7,5,3,6,3,5,1,3,3,4,4,0,1,6,5,7,7,2>>)>>
>>

PrimitiveRootsEntries ==
    { PrimitiveRootsLiteral[i] : i \in 1..Len(PrimitiveRootsLiteral) }

\* the table with the root of order 16 also under key 8
PrimitiveRoots_WrongRoot ==
    [k \in {e[1] : e \in PrimitiveRootsEntries} |->
        (CHOOSE e \in PrimitiveRootsEntries :
            e[1] = IF k = D(<<8>>) THEN D(<<1, 6>>) ELSE k)[2]]

\* the table without its last entry, 2^32
PrimitiveRoots_MissingKey ==
    [k \in {e[1] : e \in PrimitiveRootsEntries} \ {D(<<4, 2, 9, 4, 9, 6, 7, 2, 9, 6>>)} |->
        (CHOOSE e \in PrimitiveRootsEntries : e[1] = k)[2]]

\* the table with the modulus, which is Zero modulo p, under key 4
PrimitiveRoots_ZeroRoot ==
    [k \in {e[1] : e \in PrimitiveRootsEntries} |->
        IF k = D(<<4>>) THEN P ELSE (CHOOSE e \in PrimitiveRootsEntries : e[1] = k)[2]]

\* the table with 0 under key 2
PrimitiveRoots_NullRoot ==
    [k \in {e[1] : e \in PrimitiveRootsEntries} |->
        IF k = D(<<2>>) THEN D(<<0>>) ELSE (CHOOSE e \in PrimitiveRootsEntries : e[1] = k)[2]]

\* var PrimitiveRoots = map[uint64]uint64{...}
PrimitiveRoots ==
    [k \in {e[1] : e \in PrimitiveRootsEntries} |->
        (CHOOSE e \in PrimitiveRootsEntries : e[1] = k)[2]]

ErrZero == <<"order cannot be zero">>
ErrNotPow2(order) == <<"order must be a power of 2, got %d", order>>
ErrNotFound(order) == <<"primitive root not found for order %d", order>>
ErrNotImplemented(order) ==
    <<"primitive root generation not implemented for order %d", order>>
ErrRange == <<"n must be less than order">>

\* order & (order - 1) != 0
NotPowerOfTwo(order) == And(order, SubWrap(order, One)) # Zero

\* GetPrimitiveRoot without the check for order zero
GetPrimitiveRoot_NoZeroCheck(m, order) ==
    IF NotPowerOfTwo(order) THEN [val |-> Zero, err |-> ErrNotPow2(order)]
    ELSE IF order \in DOMAIN m THEN [val |-> NewFromRaw(m[order]), err |-> Nil]
    ELSE [val |-> Zero, err |-> ErrNotFound(order)]

\* GetPrimitiveRoot(order) reading the map m
GetPrimitiveRoot(m, order) ==
    IF order = Zero THEN [val |-> Zero, err |-> ErrZero]
    ELSE IF NotPowerOfTwo(order) THEN [val |-> Zero, err |-> ErrNotPow2(order)]
    ELSE IF order \in DOMAIN m THEN [val |-> NewFromRaw(m[order]), err |-> Nil]
    ELSE [val |-> Zero, err |-> ErrNotFound(order)]

\* PrimitiveRootOfUnity(order): an Element, no error
PrimitiveRootOfUnity(m, order) ==
    The({ IF r.err # Nil THEN [val |-> Zero] ELSE [val |-> r.val] :
          r \in {GetPrimitiveRoot(m, order)} })

\* IsPrimitiveRootOfUnity without the check of element^(order/2)
IsPrimitiveRootOfUnity_NoHalfCheck(element, order) ==
    IF order = Zero THEN FALSE
    ELSE IF NotPowerOfTwo(order) THEN FALSE
    ELSE Equal(ModPow(element, order), One)

\* IsPrimitiveRootOfUnity(element, order): a bool
IsPrimitiveRootOfUnity(element, order) ==
    IF order = Zero THEN FALSE
    ELSE IF NotPowerOfTwo(order) THEN FALSE
    ELSE IF ~Equal(ModPow(element, order), One) THEN FALSE
    ELSE IF Lt(One, order) /\ Equal(ModPow(element, Half(order)), One) THEN FALSE
    ELSE TRUE

\* GeneratePrimitiveRoot substituting One for an order it cannot generate
GeneratePrimitiveRoot_Fallback(m, order) ==
    IF order = Zero THEN [val |-> Zero, err |-> ErrZero]
    ELSE IF NotPowerOfTwo(order) THEN [val |-> One, err |-> Nil]
    ELSE IF order \in DOMAIN m THEN [val |-> NewFromRaw(m[order]), err |-> Nil]
    ELSE [val |-> One, err |-> Nil]

\* GeneratePrimitiveRoot with the lookup's message for an order outside the table
GeneratePrimitiveRoot_NotFound(m, order) ==
    IF order = Zero THEN [val |-> Zero, err |-> ErrZero]
    ELSE IF NotPowerOfTwo(order) THEN [val |-> Zero, err |-> ErrNotPow2(order)]
    ELSE IF order \in DOMAIN m THEN [val |-> NewFromRaw(m[order]), err |-> Nil]
    ELSE [val |-> Zero, err |-> ErrNotFound(order)]

\* GeneratePrimitiveRoot(order)
GeneratePrimitiveRoot(m, order) ==
    IF order = Zero THEN [val |-> Zero, err |-> ErrZero]
    ELSE IF NotPowerOfTwo(order) THEN [val |-> Zero, err |-> ErrNotPow2(order)]
    ELSE IF order \in DOMAIN m THEN [val |-> NewFromRaw(m[order]), err |-> Nil]
    ELSE [val |-> Zero, err |-> ErrNotImplemented(order)]

\* root.Inverse() where the caller takes a single value: an inverse that
\* fails cannot be returned as an error and ends the call with a panic
InverseOrPanic(root) ==
    The({ IF i.err # Nil THEN [panic |-> i.err] ELSE [val |-> i.val, err |-> Nil] :
          i \in {Inverse(root)} })

\* GetInversePrimitiveRoot returning the root itself
GetInversePrimitiveRoot_NoInverse(m, order) == GetPrimitiveRoot(m, order)

\* GetInversePrimitiveRoot(order)
GetInversePrimitiveRoot(m, order) ==
    The({ IF r.err # Nil THEN [val |-> Zero, err |-> r.err]
          ELSE InverseOrPanic(r.val) :
          r \in {GetPrimitiveRoot(m, order)} })

\* GetNthRootOfUnity with the range check n > order
GetNthRootOfUnity_OffByOne(m, order, n) ==
    IF Lt(order, n) THEN [val |-> Zero, err |-> ErrRange]
    ELSE The({ IF r.err # Nil THEN [val |-> Zero, err |-> r.err]
               ELSE [val |-> ModPow(r.val, n), err |-> Nil] :
               r \in {GetPrimitiveRoot(m, order)} })

\* GetNthRootOfUnity(order, n)
GetNthRootOfUnity(m, order, n) ==
    IF Geq(n, order) THEN [val |-> Zero, err |-> ErrRange]
    ELSE The({ IF r.err # Nil THEN [val |-> Zero, err |-> r.err]
               ELSE [val |-> ModPow(r.val, n), err |-> Nil] :
               r \in {GetPrimitiveRoot(m, order)} })

\* GetInverseNthRootOfUnity inverting the primitive root instead of its power
GetInverseNthRootOfUnity_RootInverse(m, order, n) == GetInversePrimitiveRoot(m, order)

\* GetInverseNthRootOfUnity(order, n)
GetInverseNthRootOfUnity(m, order, n) ==
    The({ IF r.err # Nil THEN [val |-> Zero, err |-> r.err]
          ELSE InverseOrPanic(r.val) :
          r \in {GetNthRootOfUnity(m, order, n)} })

\* ------------------------------------------------------------------------
\* State: the package-level map and, per goroutine, the call it is making
\* ------------------------------------------------------------------------
VARIABLES table, calls

vars == <<table, calls>>

\* number of goroutines of the concurrent specification
NumThreads == 2
\* orders 0..MaxSmallOrder are tried besides the powers of two
MaxSmallOrder == 6
\* n = 0..MaxSmallN are tried besides order - 1, order, order / 2 and 2^64 - 1
MaxSmallN == 2
\* elements 0..MaxSmallElement are tried besides p - 1 and some roots
MaxSmallElement == 3
\* orders 0..ConcMaxOrder are tried by the concurrent specification
ConcMaxOrder == 1

Threads == 1..NumThreads

\* 2^k as a uint64, k in 0..63
Pow2(k) == <<IF k \div 8 = 0 THEN 2 ^ (k % 8) ELSE 0, IF k \div 8 = 1 THEN 2 ^ (k % 8) ELSE 0,
             IF k \div 8 = 2 THEN 2 ^ (k % 8) ELSE 0, IF k \div 8 = 3 THEN 2 ^ (k % 8) ELSE 0,
             IF k \div 8 = 4 THEN 2 ^ (k % 8) ELSE 0, IF k \div 8 = 5 THEN 2 ^ (k % 8) ELSE 0,
             IF k \div 8 = 6 THEN 2 ^ (k % 8) ELSE 0, IF k \div 8 = 7 THEN 2 ^ (k % 8) ELSE 0>>

\* 2^64 - 1
MaxUint64 == <<255, 255, 255, 255, 255, 255, 255, 255>>

PowersOfTwo == { Pow2(k) : k \in 0..63 }

\* 2^32 - 1, 2^32 + 1, 2^32 + 2^31, 2^33 - 1, 2^63 + 1, 2^64 - 1
LargeOrders ==
    { SubWrap(Pow2(32), One), SubWrap(Pow2(32), MaxUint64),
      SubWrap(Pow2(32), SubWrap(Zero, Pow2(31))), SubWrap(Pow2(33), One),
      SubWrap(Pow2(63), MaxUint64), MaxUint64 }

Orders == { U64(j) : j \in 0..MaxSmallOrder } \cup PowersOfTwo \cup LargeOrders

PMinus1 == <<0, 0, 0, 0, 255, 255, 255, 255>>

Elements ==
    { U64(j) : j \in 0..MaxSmallElement } \cup {PMinus1}
    \cup { NewFromRaw(PrimitiveRoots[Pow2(k)]) : k \in {2, 3, 32} }

\* the extension elements tried
XElements ==
    { XNew(<<c0, c1, c2>>) :
      c0 \in { U64(j) : j \in 0..MaxSmallElement } \cup {PMinus1},
      c1 \in { U64(j) : j \in 0..MaxSmallElement } \cup {PMinus1},
      c2 \in { U64(j) : j \in 0..MaxSmallElement } \cup {PMinus1} }

ConcOrders == { U64(j) : j \in 0..ConcMaxOrder }

Req(op, order, n, element, other) ==
    [op |-> op, order |-> order, n |-> n, element |-> element, other |-> other]

OrderOps == {"GetPrimitiveRoot", "PrimitiveRootOfUnity", "GeneratePrimitiveRoot",
             "GetInversePrimitiveRoot"}
NthOps == {"GetNthRootOfUnity", "GetInverseNthRootOfUnity"}

\* the n tried with an order o
NsFor(o) ==
    { U64(j) : j \in 0..MaxSmallN } \cup {SubWrap(o, One), o, Half(o), MaxUint64}

\* the calls of the sequential specification
Requests ==
    { Req(op, o, Zero, Zero, Zero) : op \in OrderOps, o \in Orders }
    \cup UNION { { Req(op, o, k, Zero, Zero) : op \in NthOps, k \in NsFor(o) } : o \in Orders }
    \cup { Req("IsPrimitiveRootOfUnity", o, Zero, e, Zero) : o \in Orders, e \in Elements }
    \cup { Req("Inverse", Zero, Zero, e, Zero) : e \in Elements }
    \cup { Req("Div", Zero, Zero, a, b) : a \in Elements, b \in {Zero, One, U64(5), PMinus1} }
    \cup { Req(op, Zero, Zero, e, Zero) : op \in {"Lift", "FromBaseField"}, e \in Elements }
    \cup { Req("Unlift", Zero, Zero, x, Zero) : x \in XElements }

\* the calls of the concurrent specification: the registry operations
ConcRequests ==
    { Req(op, o, Zero, Zero, Zero) : op \in OrderOps, o \in ConcOrders }
    \cup { Req(op, o, Zero, Zero, Zero) : op \in NthOps, o \in ConcOrders }
    \cup { Req("IsPrimitiveRootOfUnity", o, Zero, One, Zero) : o \in ConcOrders }

NoRet == [pending |-> TRUE]
Idle == [pc |-> "idle", op |-> "none", order |-> Zero, n |-> Zero, element |-> Zero,
         other |-> Zero, ret |-> NoRet]

Init ==
    /\ table = PrimitiveRoots
    /\ calls = [th \in Threads |-> Idle]

\* goroutine th calls an operation
Invoke(th, req) ==
    /\ calls[th].pc = "idle"
    /\ calls' = [calls EXCEPT ![th] =
                   [pc |-> "called", op |-> req.op, order |-> req.order, n |-> req.n,
                    element |-> req.element, other |-> req.other, ret |-> NoRet]]
    /\ UNCHANGED table

\* the call of goroutine th returns ret and stores the element it returns
\* in the table under the order asked for
Return_Caching(th, ret) ==
    /\ calls' = [calls EXCEPT ![th].pc = "done", ![th].ret = ret]
    /\ table' = IF "val" \in DOMAIN ret /\ calls[th].order \in DOMAIN table
                THEN [table EXCEPT ![calls[th].order] = ret.val]
                ELSE table

\* the call of goroutine th returns ret
Return(th, ret) ==
    /\ calls' = [calls EXCEPT ![th].pc = "done", ![th].ret = ret]
    /\ UNCHANGED table

\* the caller of goroutine th has taken the result
Finish(th) ==
    /\ calls[th].pc = "done"
    /\ calls' = [calls EXCEPT ![th] = Idle]
    /\ UNCHANGED table

Running(th, op) == calls[th].pc = "called" /\ calls[th].op = op

DoGetPrimitiveRoot(th) ==
    /\ Running(th, "GetPrimitiveRoot")
    /\ Return(th, GetPrimitiveRoot(table, calls[th].order))

DoPrimitiveRootOfUnity(th) ==
    /\ Running(th, "PrimitiveRootOfUnity")
    /\ Return(th, PrimitiveRootOfUnity(table, calls[th].order))

DoIsPrimitiveRootOfUnity(th) ==
    /\ Running(th, "IsPrimitiveRootOfUnity")
    /\ Return(th, [ok |-> IsPrimitiveRootOfUnity(calls[th].element, calls[th].order)])

DoGeneratePrimitiveRoot(th) ==
    /\ Running(th, "GeneratePrimitiveRoot")
    /\ Return(th, GeneratePrimitiveRoot(table, calls[th].order))

DoGetInversePrimitiveRoot(th) ==
    /\ Running(th, "GetInversePrimitiveRoot")
    /\ Return(th, GetInversePrimitiveRoot(table, calls[th].order))

DoGetNthRootOfUnity(th) ==
    /\ Running(th, "GetNthRootOfUnity")
    /\ Return(th, GetNthRootOfUnity(table, calls[th].order, calls[th].n))

DoGetInverseNthRootOfUnity(th) ==
    /\ Running(th, "GetInverseNthRootOfUnity")
    /\ Return(th, GetInverseNthRootOfUnity(table, calls[th].order, calls[th].n))

DoInverse(th) ==
    /\ Running(th, "Inverse")
    /\ Return(th, Inverse(calls[th].element))

DoDiv(th) ==
    /\ Running(th, "Div")
    /\ Return(th, Div(calls[th].element, calls[th].other))

DoLift(th) ==
    /\ Running(th, "Lift")
    /\ Return(th, [val |-> Lift(calls[th].element)])

DoFromBaseField(th) ==
    /\ Running(th, "FromBaseField")
    /\ Return(th, [val |-> FromBaseField(calls[th].element)])

DoUnlift(th) ==
    /\ Running(th, "Unlift")
    /\ Return(th, [val |-> Unlift(calls[th].element)])

\* the conversions between the base field and the extension field
Conversion(th) ==
    \/ DoLift(th)
    \/ DoFromBaseField(th)
    \/ DoUnlift(th)

\* the registry operations
Registry(th) ==
    \/ DoGetPrimitiveRoot(th)
    \/ DoPrimitiveRootOfUnity(th)
    \/ DoIsPrimitiveRootOfUnity(th)
    \/ DoGeneratePrimitiveRoot(th)
    \/ DoGetInversePrimitiveRoot(th)
    \/ DoGetNthRootOfUnity(th)
    \/ DoGetInverseNthRootOfUnity(th)

\* one goroutine calling the registry, the base field and the conversions
Next ==
    \/ \E req \in Requests : Invoke(1, req)
    \/ Registry(1)
    \/ DoInverse(1)
    \/ DoDiv(1)
    \/ Conversion(1)
    \/ Finish(1)

Spec == Init /\ [][Next]_vars

\* NumThreads goroutines calling the registry concurrently
NextConc ==
    \E th \in Threads :
        \/ \E req \in ConcRequests : Invoke(th, req)
        \/ Registry(th)
        \/ Finish(th)

SpecConc == Init /\ [][NextConc]_vars

\* ------------------------------------------------------------------------
\* Properties
\* ------------------------------------------------------------------------
Done(th, op) == calls[th].pc = "done" /\ calls[th].op = op

\* the kinds of error
IsDomainError(err) ==
    err # Nil /\ err[1] \in {"order cannot be zero", "order must be a power of 2, got %d",
                             "DomainError"}
IsNotFoundError(err) == err # Nil /\ err[1] = "primitive root not found for order %d"
IsRangeError(err) == err # Nil /\ err[1] = "n must be less than order"
IsNotImplementedError(err) ==
    err # Nil /\ err[1] = "primitive root generation not implemented for order %d"

\* the call returned an Element and an error value
HasErr(ret) == "err" \in DOMAIN ret
\* the call returned an Element
HasVal(ret) == "val" \in DOMAIN ret
Failed(ret) == HasErr(ret) /\ ret.err # Nil
Succeeded(ret) == HasErr(ret) /\ ret.err = Nil

\* the powers of two 2^0 .. 2^32
TablePowers == { Pow2(k) : k \in 0..32 }

\* C1: GetPrimitiveRoot(order) fails with a domain error iff order is zero or
\* not a power of two, fails with a not-found error iff order is a power of
\* two above 2^32 (no table entry), and otherwise succeeds with the table's
\* entry for that order; order 0 is rejected although the table has key 0.
C1_LookupOutcomes ==
    \A th \in Threads :
        Done(th, "GetPrimitiveRoot") =>
            LET o == calls[th].order
                r == calls[th].ret
            IN  /\ HasErr(r) /\ HasVal(r)
                /\ IsDomainError(r.err) <=> (o \notin PowersOfTwo)
                /\ IsNotFoundError(r.err) <=> (o \in PowersOfTwo /\ o \notin TablePowers)
                /\ r.err = Nil <=> (o \in TablePowers)
                /\ o \in TablePowers => r.val = PrimitiveRoots[o]
                /\ o \in PowersOfTwo \ TablePowers => o \notin DOMAIN PrimitiveRoots
                /\ o = Zero => Zero \in DOMAIN PrimitiveRoots /\ IsDomainError(r.err)

C1_Witness ==
    \E th \in Threads :
        /\ Done(th, "GetPrimitiveRoot")
        /\ calls[th].order = Pow2(32)
        /\ calls[th].ret.err = Nil

\* C2: every root GetPrimitiveRoot returns is a primitive root of unity of
\* the order asked for: r^order = 1 and, when order > 1, r^(order/2) # 1.
C2_LookupIsPrimitive ==
    \A th \in Threads :
        Done(th, "GetPrimitiveRoot") /\ Succeeded(calls[th].ret) =>
            /\ ModPow(calls[th].ret.val, calls[th].order) = One
            /\ calls[th].order # One =>
                   ModPow(calls[th].ret.val, Half(calls[th].order)) # One
            /\ IsPrimitiveRootOfUnity(calls[th].ret.val, calls[th].order)

C2_Witness ==
    \E th \in Threads :
        /\ Done(th, "GetPrimitiveRoot")
        /\ calls[th].order = Pow2(16)
        /\ Succeeded(calls[th].ret)
        /\ calls[th].ret.val # One

\* C3 as stated: IsPrimitiveRootOfUnity(element, order) is true iff
\* element^order = 1 and (order <= 1 or element^(order/2) # 1), for every
\* order, zero and non-powers of two included.
C3_Original ==
    \A th \in Threads :
        Done(th, "IsPrimitiveRootOfUnity") =>
            (calls[th].ret.ok <=>
                /\ ModPow(calls[th].element, calls[th].order) = One
                /\ \/ calls[th].order \in {Zero, One}
                   \/ ModPow(calls[th].element, Half(calls[th].order)) # One)

\* C3 amended: IsPrimitiveRootOfUnity(element, order) is true iff order is a
\* power of two (so not zero), element^order = 1 and (order = 1 or
\* element^(order/2) # 1); it never fails.
C3_Validate ==
    \A th \in Threads :
        Done(th, "IsPrimitiveRootOfUnity") =>
            /\ DOMAIN calls[th].ret = {"ok"}
            /\ calls[th].ret.ok <=>
                /\ calls[th].order \in PowersOfTwo
                /\ ModPow(calls[th].element, calls[th].order) = One
                /\ \/ calls[th].order = One
                   \/ ModPow(calls[th].element, Half(calls[th].order)) # One

C3_Witness ==
    \E th \in Threads :
        /\ Done(th, "IsPrimitiveRootOfUnity")
        /\ calls[th].order = U64(6)
        /\ calls[th].element = PMinus1
        /\ calls[th].ret.ok = FALSE

\* C4: GetNthRootOfUnity(order, n) fails with the range error for every
\* n >= order, whatever the order; for n < order it returns Lookup(order)^n
\* when the lookup succeeds and otherwise fails with the lookup's error.
C4_NthRoot ==
    \A th \in Threads :
        Done(th, "GetNthRootOfUnity") =>
            LET o == calls[th].order
                n == calls[th].n
                r == calls[th].ret
                l == GetPrimitiveRoot(PrimitiveRoots, calls[th].order)
            IN  /\ HasErr(r) /\ HasVal(r)
                /\ ~Lt(n, o) => IsRangeError(r.err)
                /\ Lt(n, o) /\ l.err # Nil => r.err = l.err
                /\ Lt(n, o) /\ l.err = Nil => r.err = Nil /\ r.val = ModPow(l.val, n)

C4_Witness ==
    \E th \in Threads :
        /\ Done(th, "GetNthRootOfUnity")
        /\ calls[th].order = Zero
        /\ calls[th].n = Zero
        /\ IsRangeError(calls[th].ret.err)

\* C5: GetInversePrimitiveRoot(order) fails exactly when GetPrimitiveRoot(order)
\* fails, with the same error; otherwise its result times
\* GetPrimitiveRoot(order) is One.
C5_InverseRoot ==
    \A th \in Threads :
        Done(th, "GetInversePrimitiveRoot") =>
            LET r == calls[th].ret
                l == GetPrimitiveRoot(PrimitiveRoots, calls[th].order)
            IN  /\ HasErr(r) /\ HasVal(r)
                /\ r.err = l.err
                /\ l.err = Nil => Mul(r.val, l.val) = One

C5_Witness ==
    \E th \in Threads :
        /\ Done(th, "GetInversePrimitiveRoot")
        /\ calls[th].order = Pow2(32)
        /\ Succeeded(calls[th].ret)

RegistryOps == OrderOps \cup NthOps \cup {"IsPrimitiveRootOfUnity"}
\* the operations that return (Element, error)
FallibleOps == {"GetPrimitiveRoot", "GeneratePrimitiveRoot", "GetInversePrimitiveRoot",
                "GetNthRootOfUnity", "GetInverseNthRootOfUnity"}

LookupFails(order) == GetPrimitiveRoot(PrimitiveRoots, order).err # Nil

\* C6 as stated: for an order for which the lookup fails, no registry
\* operation returns a field element without an error.
C6_Original ==
    \A th \in Threads :
        /\ calls[th].pc = "done"
        /\ calls[th].op \in RegistryOps
        /\ LookupFails(calls[th].order)
        /\ HasVal(calls[th].ret)
        => Failed(calls[th].ret)

\* C6 amended: for an order for which the lookup fails, every registry
\* operation that returns (Element, error) returns a non-nil error; the
\* convenience wrapper PrimitiveRootOfUnity, which has no error result,
\* returns Zero instead.
C6_Propagation ==
    \A th \in Threads :
        calls[th].pc = "done" /\ LookupFails(calls[th].order) =>
            /\ calls[th].op \in FallibleOps => Failed(calls[th].ret)
            /\ calls[th].op = "PrimitiveRootOfUnity" => calls[th].ret = [val |-> Zero]

C6_Witness ==
    \E th \in Threads :
        /\ Done(th, "PrimitiveRootOfUnity")
        /\ calls[th].order = U64(3)
        /\ calls[th].ret = [val |-> Zero]

\* what the call c returns when it runs alone on the initial table
Alone(c) ==
    CASE c.op = "GetPrimitiveRoot" -> GetPrimitiveRoot(PrimitiveRoots, c.order)
      [] c.op = "PrimitiveRootOfUnity" -> PrimitiveRootOfUnity(PrimitiveRoots, c.order)
      [] c.op = "IsPrimitiveRootOfUnity" ->
             [ok |-> IsPrimitiveRootOfUnity(c.element, c.order)]
      [] c.op = "GeneratePrimitiveRoot" -> GeneratePrimitiveRoot(PrimitiveRoots, c.order)
      [] c.op = "GetInversePrimitiveRoot" ->
             GetInversePrimitiveRoot(PrimitiveRoots, c.order)
      [] c.op = "GetNthRootOfUnity" -> GetNthRootOfUnity(PrimitiveRoots, c.order, c.n)
      [] c.op = "GetInverseNthRootOfUnity" ->
             GetInverseNthRootOfUnity(PrimitiveRoots, c.order, c.n)

\* the concurrent requests, each with what it returns when it runs alone
AloneResults == { <<c, Alone(c)>> : c \in ConcRequests }

\* the request a goroutine is serving
RequestOf(th) ==
    Req(calls[th].op, calls[th].order, calls[th].n, calls[th].element, calls[th].other)

\* C7: no registry operation writes the table: after any interleaving of
\* concurrent calls the table equals its initial contents and every call
\* has returned what it returns when run alone.
C7_TableReadOnly ==
    /\ table = PrimitiveRoots
    /\ \A th \in Threads :
           calls[th].pc = "done" => <<RequestOf(th), calls[th].ret>> \in AloneResults

C7_Witness ==
    \E t1, t2 \in Threads :
        /\ t1 # t2
        /\ Done(t1, "GetInversePrimitiveRoot")
        /\ Running(t2, "GeneratePrimitiveRoot")
        /\ calls[t1].order = calls[t2].order

\* C8 as stated: for any order outside the table GeneratePrimitiveRoot
\* returns the not-implemented error, and for every order with a table entry
\* it returns that entry.
C8_Original ==
    \A th \in Threads :
        Done(th, "GeneratePrimitiveRoot") =>
            IF calls[th].order \in DOMAIN PrimitiveRoots
            THEN calls[th].ret = [val |-> PrimitiveRoots[calls[th].order], err |-> Nil]
            ELSE IsNotImplementedError(calls[th].ret.err)

\* C8 amended: GeneratePrimitiveRoot(order) returns the domain error when
\* order is zero (although the table has key 0) or not a power of two, the
\* not-implemented error for a power of two outside the table, and the
\* table's entry for every power of two in the table; it never returns a
\* root for an order outside the table.
C8_Generate ==
    \A th \in Threads :
        Done(th, "GeneratePrimitiveRoot") =>
            LET o == calls[th].order
                r == calls[th].ret
            IN  /\ o \notin PowersOfTwo => IsDomainError(r.err)
                /\ o \in PowersOfTwo \ DOMAIN PrimitiveRoots =>
                       IsNotImplementedError(r.err)
                /\ o \in PowersOfTwo \cap DOMAIN PrimitiveRoots =>
                       r = [val |-> PrimitiveRoots[o], err |-> Nil]
                /\ o \notin DOMAIN PrimitiveRoots => r.err # Nil /\ r.val = Zero

C8_Witness ==
    \E th \in Threads :
        /\ Done(th, "GeneratePrimitiveRoot")
        /\ calls[th].order = Pow2(33)
        /\ IsNotImplementedError(calls[th].ret.err)

\* C9 as stated: every key of the table is a power of two with
\* 1 <= order <= 2^32, and the table has an entry for each of them.
C9_Original == DOMAIN table = TablePowers

\* C9 amended: every key of the table is 0 or a power of two with
\* 1 <= order <= 2^32, and the table has an entry for each such power of two
\* (and for 0).
C9_TableKeys == DOMAIN table = TablePowers \cup {Zero}

C9_Witness ==
    /\ Zero \in DOMAIN table
    /\ \E th \in Threads : Done(th, "GetPrimitiveRoot") /\ calls[th].order = Zero

\* C10: Inverse of Zero, and Div by Zero for any dividend, signal a
\* DomainError instead of returning an element; for every nonzero a,
\* a.Inverse().Mul(a) = One.
C10_InverseDiv ==
    \A th \in Threads :
        /\ Done(th, "Inverse") =>
               IF calls[th].element = Zero
               THEN calls[th].ret.err = DomainError
               ELSE /\ calls[th].ret.err = Nil
                    /\ Mul(calls[th].ret.val, calls[th].element) = One
        /\ Done(th, "Div") /\ calls[th].other = Zero => calls[th].ret.err = DomainError

C10_Witness ==
    \E th \in Threads :
        /\ Done(th, "Div")
        /\ calls[th].element = U64(3)
        /\ calls[th].other = Zero
        /\ calls[th].ret.err = DomainError

\* C11: Lift(a) = FromBaseField(a) = <<a, 0, 0>> and Unlift(Lift(a)) = a for
\* every base element a; Unlift returns the constant term, and
\* Lift(Unlift(x)) = x exactly when the other two coefficients are Zero;
\* each of the three returns a single value and no error.
C11_LiftUnlift ==
    \A th \in Threads :
        /\ Done(th, "Lift") \/ Done(th, "FromBaseField") =>
               /\ calls[th].ret = [val |-> <<calls[th].element, Zero, Zero>>]
               /\ calls[th].ret.val = Lift(calls[th].element)
               /\ calls[th].ret.val = FromBaseField(calls[th].element)
               /\ Unlift(calls[th].ret.val) = calls[th].element
        /\ Done(th, "Unlift") =>
               /\ calls[th].ret = [val |-> calls[th].element[1]]
               /\ Lift(calls[th].ret.val) = calls[th].element
                     <=> calls[th].element[2] = Zero /\ calls[th].element[3] = Zero

\* an element with a nonzero higher coefficient has been unlifted
C11_Witness ==
    \E th \in Threads :
        /\ Done(th, "Unlift")
        /\ calls[th].element[2] # Zero
        /\ calls[th].element[1] # Zero
        /\ Lift(calls[th].ret.val) # calls[th].element

\* C12: GetInverseNthRootOfUnity(order, n) fails exactly when
\* GetNthRootOfUnity(order, n) fails, and then with the same error; when
\* neither fails the product of the two results is One; for n = 0 the result
\* is One; for every order of the table other than 0 and every n < order
\* neither fails.
C12_InverseNthRoot ==
    \A th \in Threads :
        Done(th, "GetInverseNthRootOfUnity") =>
            \A g \in {GetNthRootOfUnity(table, calls[th].order, calls[th].n)} :
                /\ HasErr(calls[th].ret)
                /\ calls[th].ret.err = g.err
                /\ g.err = Nil => Mul(calls[th].ret.val, g.val) = One
                /\ g.err = Nil /\ calls[th].n = Zero => calls[th].ret.val = One
                /\ /\ calls[th].order \in DOMAIN table
                   /\ calls[th].order # Zero
                   /\ Lt(calls[th].n, calls[th].order)
                   => g.err = Nil

\* the inverse of a power of a root that is not One has been returned
C12_Witness ==
    \E th \in Threads :
        /\ Done(th, "GetInverseNthRootOfUnity")
        /\ calls[th].order = Pow2(32)
        /\ calls[th].n = SubWrap(Pow2(32), One)
        /\ HasErr(calls[th].ret)
        /\ calls[th].ret.err = Nil
        /\ calls[th].ret.val = NewFromRaw(PrimitiveRoots[Pow2(32)])

\* C13: PrimitiveRootOfUnity(order) returns a single Element; it is Zero
\* exactly when GetPrimitiveRoot(order) fails, and otherwise it is the element
\* GetPrimitiveRoot(order) returns, so it is not Zero for any order that
\* GetPrimitiveRoot supports.
C13_ZeroSentinel ==
    \A th \in Threads :
        Done(th, "PrimitiveRootOfUnity") =>
            \A g \in {GetPrimitiveRoot(table, calls[th].order)} :
                /\ DOMAIN calls[th].ret = {"val"}
                /\ calls[th].ret.val = Zero <=> g.err # Nil
                /\ g.err = Nil => calls[th].ret.val = g.val /\ g.val # Zero

\* the root of the largest supported order has been returned
C13_Witness ==
    \E th \in Threads :
        /\ Done(th, "PrimitiveRootOfUnity")
        /\ calls[th].order = Pow2(32)
        /\ calls[th].ret.val = NewFromRaw(PrimitiveRoots[Pow2(32)])
        /\ calls[th].ret.val # Zero

\* C14: no call of GetInversePrimitiveRoot or GetInverseNthRootOfUnity ends
\* in the failure of Inverse: whenever the lookup before it succeeds, the
\* element it hands to Inverse is not Zero, and the call returns an Element
\* with a nil error.
C14_InverseNotOnZero ==
    \A th \in Threads :
        /\ Done(th, "GetInversePrimitiveRoot") =>
               \A g \in {GetPrimitiveRoot(table, calls[th].order)} :
                   /\ "panic" \notin DOMAIN calls[th].ret
                   /\ g.err = Nil => g.val # Zero /\ Inverse(g.val).err = Nil
                                      /\ Succeeded(calls[th].ret)
        /\ Done(th, "GetInverseNthRootOfUnity") =>
               \A g \in {GetNthRootOfUnity(table, calls[th].order, calls[th].n)} :
                   /\ "panic" \notin DOMAIN calls[th].ret
                   /\ g.err = Nil => g.val # Zero /\ Inverse(g.val).err = Nil
                                      /\ Succeeded(calls[th].ret)

\* Inverse has been invoked on p - 1, the power 2^31 of the root of order 2^32
C14_Witness ==
    \E th \in Threads :
        /\ Done(th, "GetInverseNthRootOfUnity")
        /\ calls[th].order = Pow2(32)
        /\ calls[th].n = Pow2(31)
        /\ GetNthRootOfUnity(table, calls[th].order, calls[th].n).val = PMinus1
        /\ calls[th].ret = [val |-> PMinus1, err |-> Nil]

====
